---------------------------- MODULE Spec2Model ----------------------------
(***************************************************************************)
(* Model of src/size.rs: the spacing types Size, Size2D and SizeBox, their *)
(* constructors, comparisons, operator overloads, summation and rendering. *)
(*                                                                         *)
(* The f32 magnitude is modelled by a small binary floating-point format   *)
(* with the IEEE-754 structure of f32: one NaN, two infinities, signed     *)
(* zeros, subnormals, MantBits bits of significand, round-to-nearest-even, *)
(* overflow to infinity.  A finite value is sign * mag / 2^FracBits.       *)
(***************************************************************************)
EXTENDS Integers, Sequences, FiniteSets, TLC

(* ---------------- bounds of the floating-point format ---------------- *)

\* number of fractional bits of the smallest unit (unit = 2^-FracBits)
FracBits == 1

\* bits of significand (f32 has 24)
MantBits == 3

\* number of binades above the subnormal range
ExpSpan == 2

\* sample magnitudes 0..MaxSample (plus the largest finite one) feed the inputs
MaxSample == 2

\* integer scalars are drawn from -MaxInt..MaxInt
MaxInt == 9

\* longest summed sequence
MaxLen == 3

\* longest chain of compound assignments
MaxSteps == 2

(* ---------------- f32 ---------------- *)

RECURSIVE Pow2(_)
Pow2(n) ==
  IF n = 0 THEN 1 ELSE 2 * Pow2(n - 1)

Unit ==
  Pow2(FracBits)

MaxMag ==
  (Pow2(MantBits) - 1) * Pow2(ExpSpan)

Representable(m) ==
  \E e \in 0..ExpSpan : m % Pow2(e) = 0 /\ m \div Pow2(e) < Pow2(MantBits)

Mags ==
  {m \in 0..MaxMag : Representable(m)}

NaN ==
  [cls |-> "nan", neg |-> FALSE, mag |-> 0]

Inf(neg) ==
  [cls |-> "inf", neg |-> neg, mag |-> 0]

Fin(neg, mag) ==
  [cls |-> "fin", neg |-> neg, mag |-> mag]

F32 ==
  {NaN} \cup {Inf(s) : s \in BOOLEAN} \cup {Fin(s, m) : s \in BOOLEAN, m \in Mags}

IsNaN(x) ==
  x.cls = "nan"

IsInf(x) ==
  x.cls = "inf"

IsFinite(x) ==
  x.cls = "fin"

IsZero(x) ==
  x.cls = "fin" /\ x.mag = 0

\* the float literal 0.0
F32Zero ==
  Fin(FALSE, 0)

\* whether num/den (in units) fits MantBits bits of significand at exponent e
Fits(num, den, e) ==
  num \div (den * Pow2(e)) < Pow2(MantBits)

\* round the non-negative rational num/den (in units) to the nearest
\* representable magnitude, ties to the even significand; -1 on overflow
RoundMag(num, den) ==
  IF ~ \E e \in 0..ExpSpan : Fits(num, den, e)
  THEN -1
  ELSE LET e == CHOOSE e1 \in 0..ExpSpan :
                  /\ Fits(num, den, e1)
                  /\ \A e2 \in 0..(e1 - 1) : ~ Fits(num, den, e2)
           d == den * Pow2(e)
           q == num \div d
           r == num % d
           up == (2 * r > d) \/ (2 * r = d /\ q % 2 = 1)
           m == (IF up THEN q + 1 ELSE q) * Pow2(e)
       IN IF m > MaxMag THEN -1 ELSE m

Rounded(neg, num, den) ==
  LET m == RoundMag(num, den)
  IN IF m = -1 THEN Inf(neg) ELSE Fin(neg, m)

Abs(i) ==
  IF i < 0 THEN -i ELSE i

\* the signed magnitude of a finite value, in units
Signed(x) ==
  IF x.neg THEN -x.mag ELSE x.mag

\* f32: unary minus
F32Neg(x) ==
  IF IsNaN(x) THEN NaN ELSE [x EXCEPT !.neg = ~x.neg]

\* f32: x + y
F32Add(x, y) ==
  IF IsNaN(x) \/ IsNaN(y) THEN NaN
  ELSE IF IsInf(x) /\ IsInf(y) THEN (IF x.neg = y.neg THEN x ELSE NaN)
  ELSE IF IsInf(x) THEN x
  ELSE IF IsInf(y) THEN y
  ELSE LET s == Signed(x) + Signed(y)
       IN IF s = 0 THEN Fin(x.neg /\ y.neg, 0)
          ELSE Rounded(s < 0, Abs(s), 1)

\* f32: x - y
F32Sub(x, y) ==
  F32Add(x, F32Neg(y))

\* f32: x * y
F32Mul(x, y) ==
  IF IsNaN(x) \/ IsNaN(y) THEN NaN
  ELSE IF (IsInf(x) /\ IsZero(y)) \/ (IsZero(x) /\ IsInf(y)) THEN NaN
  ELSE IF IsInf(x) \/ IsInf(y) THEN Inf(x.neg # y.neg)
  ELSE Rounded(x.neg # y.neg, x.mag * y.mag, Unit)

\* f32: x / y
F32Div(x, y) ==
  IF IsNaN(x) \/ IsNaN(y) THEN NaN
  ELSE IF (IsInf(x) /\ IsInf(y)) \/ (IsZero(x) /\ IsZero(y)) THEN NaN
  ELSE IF IsInf(x) \/ IsZero(y) THEN Inf(x.neg # y.neg)
  ELSE IF IsInf(y) THEN Fin(x.neg # y.neg, 0)
  ELSE Rounded(x.neg # y.neg, x.mag * Unit, y.mag)

\* i32 as f32: the nearest float
I32AsF32(i) ==
  Rounded(i < 0, Abs(i) * Unit, 1)

\* f32 as f32
F32AsF32(x) ==
  x

\* position of a non-NaN value on the extended real line
Key(x) ==
  IF IsInf(x) THEN (IF x.neg THEN -(MaxMag + 1) ELSE MaxMag + 1) ELSE Signed(x)

\* f32: x == y
F32Eq(x, y) ==
  ~ IsNaN(x) /\ ~ IsNaN(y) /\ Key(x) = Key(y)

\* f32: x <= y
F32Le(x, y) ==
  ~ IsNaN(x) /\ ~ IsNaN(y) /\ Key(x) <= Key(y)

\* f32: x >= y
F32Ge(x, y) ==
  ~ IsNaN(x) /\ ~ IsNaN(y) /\ Key(x) >= Key(y)

\* f32::partial_cmp
F32PartialCmp(x, y) ==
  CASE ~ F32Le(x, y) /\ ~ F32Ge(x, y) -> "None"
    [] ~ F32Le(x, y) /\ F32Ge(x, y) -> "Greater"
    [] F32Le(x, y) /\ ~ F32Ge(x, y) -> "Less"
    [] F32Le(x, y) /\ F32Ge(x, y) -> "Equal"

(* ---------------- Size ---------------- *)

\* variant: zero() builds one point
Size_zero_one ==
  [points |-> Fin(FALSE, Unit)]

\* Size::zero
Size_zero ==
  [points |-> F32Zero]

\* #[derive(Default)] on Size: the default of f32 is 0.0
Size_default ==
  [points |-> F32Zero]

\* variant: from_points scales its argument the way the other units do
Size_from_points_scaled(points) ==
  [points |-> F32Mul(Fin(FALSE, 2 * Unit), points)]

\* Size::from_points
Size_from_points(points) ==
  [points |-> points]

\* Size::to_points
Size_to_points(self) ==
  self.points

\* #[derive(PartialEq)] on Size
Size_eq(self, other) ==
  F32Eq(self.points, other.points)

\* variant: identical representations are taken for equal before comparing
Size_partial_cmp_identity(self, other) ==
  IF self = other THEN "Equal" ELSE F32PartialCmp(self.points, other.points)

\* impl PartialOrd for Size
Size_partial_cmp(self, other) ==
  F32PartialCmp(self.points, other.points)

\* PartialOrd's provided methods lt, le, gt, ge on a partial_cmp result
OrdLt(c) ==
  c = "Less"

OrdLe(c) ==
  c \in {"Less", "Equal"}

OrdGt(c) ==
  c = "Greater"

OrdGe(c) ==
  c \in {"Greater", "Equal"}

\* impl Neg for Size
Size_neg(self) ==
  [points |-> F32Neg(self.points)]

\* impl_reflexive!(Add, add, AddAssign, add_assign)
Size_add(self, other) ==
  [points |-> F32Add(self.points, other.points)]

Size_add_assign(self, other) ==
  [self EXCEPT !.points = F32Add(@, other.points)]

\* impl_reflexive!(Sub, sub, SubAssign, sub_assign)
Size_sub(self, other) ==
  [points |-> F32Sub(self.points, other.points)]

Size_sub_assign(self, other) ==
  [self EXCEPT !.points = F32Sub(@, other.points)]

\* impl_num_both!(Mul, mul, MulAssign, mul_assign, f32)
Size_mul_f32(self, other) ==
  [points |-> F32Mul(self.points, F32AsF32(other))]

Size_mul_assign_f32(self, other) ==
  [self EXCEPT !.points = F32Mul(@, F32AsF32(other))]

\* variant: the scalar-first form forgets its left operand
f32_mul_Size_square(self, other) ==
  [points |-> F32Mul(other.points, other.points)]

f32_mul_Size(self, other) ==
  [points |-> F32Mul(F32AsF32(self), other.points)]

\* impl_num_both!(Mul, mul, MulAssign, mul_assign, i32)
Size_mul_i32(self, other) ==
  [points |-> F32Mul(self.points, I32AsF32(other))]

Size_mul_assign_i32(self, other) ==
  [self EXCEPT !.points = F32Mul(@, I32AsF32(other))]

i32_mul_Size(self, other) ==
  [points |-> F32Mul(I32AsF32(self), other.points)]

\* impl_num_back!(Div, div, DivAssign, div_assign, f32)
Size_div_f32(self, other) ==
  [points |-> F32Div(self.points, F32AsF32(other))]

Size_div_assign_f32(self, other) ==
  [self EXCEPT !.points = F32Div(@, F32AsF32(other))]

\* variant: an integer division, which panics on a zero divisor
Size_div_i32_integer(self, other) ==
  IF other = 0
  THEN [points |-> [cls |-> "panic", neg |-> FALSE, mag |-> 0]]
  ELSE [points |-> F32Div(self.points, I32AsF32(other))]

\* impl_num_back!(Div, div, DivAssign, div_assign, i32)
Size_div_i32(self, other) ==
  [points |-> F32Div(self.points, I32AsF32(other))]

Size_div_assign_i32(self, other) ==
  [self EXCEPT !.points = F32Div(@, I32AsF32(other))]

\* variant: the fold runs from the back of the sequence
RECURSIVE FoldRight(_, _)
FoldRight(init, iter) ==
  IF iter = <<>> THEN init ELSE Size_add(Head(iter), FoldRight(init, Tail(iter)))

\* Iterator::fold(init, f) over the items of a sequence, front to back
RECURSIVE Fold(_, _)
Fold(init, iter) ==
  IF iter = <<>> THEN init ELSE Fold(Size_add(init, Head(iter)), Tail(iter))

\* impl Sum for Size
Size_sum(iter) ==
  Fold(Size_zero, iter)

(* ---------------- Size2D ---------------- *)

\* Size2D::new
Size2D_new(x, y) ==
  [x |-> x, y |-> y]

\* Size2D::zero
Size2D_zero ==
  [x |-> Size_zero, y |-> Size_zero]

\* #[derive(PartialEq)] on Size2D
Size2D_eq(self, other) ==
  Size_eq(self.x, other.x) /\ Size_eq(self.y, other.y)

\* variant: the product order, both components must agree
Size2D_partial_cmp_product(self, other) ==
  LET cx == Size_partial_cmp(self.x, other.x)
      cy == Size_partial_cmp(self.y, other.y)
  IN IF cx = cy THEN cx
     ELSE IF cx = "Equal" THEN cy
     ELSE IF cy = "Equal" THEN cx
     ELSE "None"

\* #[derive(PartialOrd)] on Size2D: the lexicographic order of the fields in
\* declaration order; <, <=, >, >= are PartialOrd's provided methods
Size2D_partial_cmp(self, other) ==
  LET cx == Size_partial_cmp(self.x, other.x)
  IN IF cx = "Equal" THEN Size_partial_cmp(self.y, other.y) ELSE cx

\* impl Neg for Size2D
Size2D_neg(self) ==
  [x |-> Size_neg(self.x), y |-> Size_neg(self.y)]

\* impl_reflexive2d!(Add, add, AddAssign, add_assign)
Size2D_add(self, other) ==
  [x |-> Size_add(self.x, other.x), y |-> Size_add(self.y, other.y)]

Size2D_add_assign(self, other) ==
  LET s1 == [self EXCEPT !.x = Size_add_assign(@, other.x)]
  IN [s1 EXCEPT !.y = Size_add_assign(@, other.y)]

\* variant: y is computed from the receiver's x
Size2D_sub_crossed(self, other) ==
  [x |-> Size_sub(self.x, other.x), y |-> Size_sub(self.x, other.y)]

\* impl_reflexive2d!(Sub, sub, SubAssign, sub_assign)
Size2D_sub(self, other) ==
  [x |-> Size_sub(self.x, other.x), y |-> Size_sub(self.y, other.y)]

\* variant: only x is updated, y is left stale
Size2D_sub_assign_stale(self, other) ==
  [self EXCEPT !.x = Size_sub_assign(@, other.x)]

Size2D_sub_assign(self, other) ==
  LET s1 == [self EXCEPT !.x = Size_sub_assign(@, other.x)]
  IN [s1 EXCEPT !.y = Size_sub_assign(@, other.y)]

\* impl_num_both2d!(Mul, mul, MulAssign, mul_assign, f32)
Size2D_mul_f32(self, other) ==
  [x |-> Size_mul_f32(self.x, F32AsF32(other)),
   y |-> Size_mul_f32(self.y, F32AsF32(other))]

Size2D_mul_assign_f32(self, other) ==
  LET s1 == [self EXCEPT !.x = Size_mul_assign_f32(@, F32AsF32(other))]
  IN [s1 EXCEPT !.y = Size_mul_assign_f32(@, F32AsF32(other))]

f32_mul_Size2D(self, other) ==
  [x |-> f32_mul_Size(F32AsF32(self), other.x),
   y |-> f32_mul_Size(F32AsF32(self), other.y)]

\* impl_num_both2d!(Mul, mul, MulAssign, mul_assign, i32)
Size2D_mul_i32(self, other) ==
  [x |-> Size_mul_f32(self.x, I32AsF32(other)),
   y |-> Size_mul_f32(self.y, I32AsF32(other))]

Size2D_mul_assign_i32(self, other) ==
  LET s1 == [self EXCEPT !.x = Size_mul_assign_f32(@, I32AsF32(other))]
  IN [s1 EXCEPT !.y = Size_mul_assign_f32(@, I32AsF32(other))]

i32_mul_Size2D(self, other) ==
  [x |-> f32_mul_Size(I32AsF32(self), other.x),
   y |-> f32_mul_Size(I32AsF32(self), other.y)]

\* impl_num_back2d!(Div, div, DivAssign, div_assign, f32)
Size2D_div_f32(self, other) ==
  [x |-> Size_div_f32(self.x, F32AsF32(other)),
   y |-> Size_div_f32(self.y, F32AsF32(other))]

Size2D_div_assign_f32(self, other) ==
  LET s1 == [self EXCEPT !.x = Size_div_assign_f32(@, F32AsF32(other))]
  IN [s1 EXCEPT !.y = Size_div_assign_f32(@, F32AsF32(other))]

\* impl_num_back2d!(Div, div, DivAssign, div_assign, i32)
Size2D_div_i32(self, other) ==
  [x |-> Size_div_f32(self.x, I32AsF32(other)),
   y |-> Size_div_f32(self.y, I32AsF32(other))]

Size2D_div_assign_i32(self, other) ==
  LET s1 == [self EXCEPT !.x = Size_div_assign_f32(@, I32AsF32(other))]
  IN [s1 EXCEPT !.y = Size_div_assign_f32(@, I32AsF32(other))]

(* ---------------- SizeBox ---------------- *)

\* SizeBox::new
SizeBox_new(left, top, right, bottom) ==
  [left |-> left, top |-> top, right |-> right, bottom |-> bottom]

\* SizeBox::zero
SizeBox_zero ==
  [left |-> Size_zero, top |-> Size_zero, right |-> Size_zero, bottom |-> Size_zero]

\* #[derive(PartialEq)] on SizeBox
SizeBox_eq(self, other) ==
  /\ Size_eq(self.left, other.left)
  /\ Size_eq(self.top, other.top)
  /\ Size_eq(self.right, other.right)
  /\ Size_eq(self.bottom, other.bottom)

\* #[derive(PartialOrd)] on SizeBox: the lexicographic order of the fields in
\* declaration order
SizeBox_partial_cmp(self, other) ==
  LET cl == Size_partial_cmp(self.left, other.left)
      ct == Size_partial_cmp(self.top, other.top)
      cr == Size_partial_cmp(self.right, other.right)
  IN IF cl # "Equal" THEN cl
     ELSE IF ct # "Equal" THEN ct
     ELSE IF cr # "Equal" THEN cr
     ELSE Size_partial_cmp(self.bottom, other.bottom)

(* ---------------- Display and Debug ---------------- *)

Digit(d) ==
  CASE d = 0 -> "0" [] d = 1 -> "1" [] d = 2 -> "2" [] d = 3 -> "3" [] d = 4 -> "4"
    [] d = 5 -> "5" [] d = 6 -> "6" [] d = 7 -> "7" [] d = 8 -> "8" [] d = 9 -> "9"

\* the decimal digits of a natural number
RECURSIVE Decimal(_)
Decimal(n) ==
  IF n < 10 THEN Digit(n) ELSE Decimal(n \div 10) \o Digit(n % 10)

\* the decimal digits of the fraction r / Unit, 0 <= r < Unit
RECURSIVE FracDigits(_)
FracDigits(r) ==
  IF r = 0 THEN "" ELSE Digit((r * 10) \div Unit) \o FracDigits((r * 10) % Unit)

\* "{}" of an f32
F32Display(x) ==
  CASE IsNaN(x) -> "NaN"
    [] IsInf(x) -> (IF x.neg THEN "-inf" ELSE "inf")
    [] IsFinite(x) ->
         (IF x.neg THEN "-" ELSE "")
         \o Decimal(x.mag \div Unit)
         \o (IF x.mag % Unit = 0 THEN "" ELSE "." \o FracDigits(x.mag % Unit))

\* impl Display for Size
Size_fmt(self) ==
  F32Display(self.points) \o "pt"

\* impl Debug for Size
Size_debug(self) ==
  Size_fmt(self)

\* impl Display for Size2D
Size2D_fmt(self) ==
  "[" \o Size_fmt(self.x) \o ", " \o Size_fmt(self.y) \o "]"

\* impl Debug for Size2D
Size2D_debug(self) ==
  Size2D_fmt(self)

\* variant: top and right are written in the other order
SizeBox_fmt_swapped(self) ==
  "[left: " \o Size_fmt(self.left) \o ", top: " \o Size_fmt(self.right)
  \o ", right: " \o Size_fmt(self.top) \o ", bottom: " \o Size_fmt(self.bottom) \o "]"

\* impl Display for SizeBox
SizeBox_fmt(self) ==
  "[left: " \o Size_fmt(self.left) \o ", top: " \o Size_fmt(self.top)
  \o ", right: " \o Size_fmt(self.right) \o ", bottom: " \o Size_fmt(self.bottom) \o "]"

\* impl Debug for SizeBox
SizeBox_debug(self) ==
  SizeBox_fmt(self)

(* ---------------- inputs ---------------- *)

\* float inputs: the special values, the small magnitudes and the largest one
Samples ==
  {x \in F32 : IsFinite(x) => (x.mag <= MaxSample \/ x.mag = MaxMag)}

Few ==
  {NaN, Inf(FALSE), Fin(TRUE, 0), F32Zero, Fin(FALSE, 1), Fin(FALSE, MaxMag), Fin(TRUE, MaxMag)}

Tiny ==
  {NaN, F32Zero, Fin(FALSE, 1)}

\* integer inputs; every one converts to a finite float, as every i32 does
Ints ==
  {i \in (-MaxInt)..MaxInt : RoundMag(Abs(i) * Unit, 1) # -1}

IntsFew ==
  {i \in Ints : i \in {-1, 0, 2, MaxInt}}

Sizes(S) ==
  {Size_from_points(p) : p \in S}

Size2Ds(S) ==
  {Size2D_new(x, y) : x \in Sizes(S), y \in Sizes(S)}

SizeBoxes(S) ==
  {SizeBox_new(l, t, r, b) : l \in Sizes(S), t \in Sizes(S), r \in Sizes(S), b \in Sizes(S)}

SeqsUpTo(S, n) ==
  UNION {[1..k -> S] : k \in 0..n}

(* ---------------- the client program ---------------- *)

VARIABLES
  scn,     \* the part of the interface the client exercises
  call,    \* the last call on Size: operation, operands, results
  vcall,   \* the last call on Size2D
  bcall,   \* the last call on SizeBox
  rel,     \* what the last comparison answered
  out,     \* what the last "{}" rendering wrote
  dbg,     \* what the last "{:?}" rendering wrote
  recv,    \* a Size updated in place by compound assignments
  chain,   \* the same chain computed with the value-returning operators
  vrecv,   \* a Size2D updated in place by compound assignments
  vchain,  \* the same chain computed with the value-returning operators
  rhs,     \* the caller's right operand of the next compound assignment
  steps,   \* compound assignments executed so far
  items,   \* the sequence handed to sum
  idx,     \* position of the client's own addition loop
  acc,     \* the accumulator of that loop
  total    \* what sum returned

vars ==
  <<scn, call, vcall, bcall, rel, out, dbg, recv, chain, vrecv, vchain, rhs, steps,
    items, idx, acc, total>>

callVars ==
  <<call, vcall, bcall, rel, out, dbg>>

assignVars ==
  <<recv, chain, vrecv, vchain, rhs, steps>>

sumVars ==
  <<items, idx, acc, total>>

NoCall ==
  [op |-> "none", a |-> Size_zero, b |-> Size_zero, k |-> F32Zero, i |-> 0,
   r |-> Size_zero, p |-> F32Zero]

NoVCall ==
  [op |-> "none", a |-> Size2D_zero, b |-> Size2D_zero, k |-> F32Zero, i |-> 0,
   r |-> Size2D_zero]

NoBCall ==
  [op |-> "none", a |-> SizeBox_zero, b |-> SizeBox_zero]

NoRel ==
  [cmp |-> "None", lt |-> FALSE, le |-> FALSE, gt |-> FALSE, ge |-> FALSE, eq |-> FALSE]

NoRhs ==
  [ty |-> "none", f |-> F32Zero, i |-> 0, v |-> Size2D_zero]

\* the answers of ==, partial_cmp, <, <=, >, >= for one pair of operands
Answers(c, e) ==
  [cmp |-> c, lt |-> OrdLt(c), le |-> OrdLe(c), gt |-> OrdGt(c), ge |-> OrdGe(c), eq |-> e]

Scenarios ==
  {"size", "size2d", "sizebox", "assign", "assign2d", "sum"}

Init ==
  /\ scn \in Scenarios
  /\ call = NoCall
  /\ vcall = NoVCall
  /\ bcall = NoBCall
  /\ rel = NoRel
  /\ out = ""
  /\ dbg = ""
  /\ recv \in (IF scn = "assign" THEN Sizes(Samples) ELSE {Size_zero})
  /\ chain = recv
  /\ vrecv \in (IF scn = "assign2d" THEN Size2Ds(Few) ELSE {Size2D_zero})
  /\ vchain = vrecv
  /\ rhs = NoRhs
  /\ steps = 0
  /\ items \in (IF scn = "sum" THEN SeqsUpTo(Sizes(Few), MaxLen) ELSE {<<>>})
  /\ idx = 0
  /\ acc = Size_zero
  /\ total = Size_zero

(* ---- calls on Size ---- *)

\* each run of the client makes one call; the call and what it returned are kept

CallZero ==
  /\ scn = "size"
  /\ call.op = "none"
  /\ call' = [NoCall EXCEPT !.op = "zero", !.r = Size_zero]
  /\ UNCHANGED <<scn, vcall, bcall, rel, out, dbg, assignVars, sumVars>>

CallDefault ==
  /\ scn = "size"
  /\ call.op = "none"
  /\ call' = [NoCall EXCEPT !.op = "default", !.r = Size_default]
  /\ UNCHANGED <<scn, vcall, bcall, rel, out, dbg, assignVars, sumVars>>

CallFromPoints ==
  /\ scn = "size"
  /\ call.op = "none"
  /\ \E p \in F32 :
       call' = [NoCall EXCEPT !.op = "from_points", !.k = p, !.r = Size_from_points(p)]
  /\ UNCHANGED <<scn, vcall, bcall, rel, out, dbg, assignVars, sumVars>>

\* to_points on the size the last from_points built
CallToPoints ==
  /\ scn = "size"
  /\ call.op = "from_points"
  /\ call' = [call EXCEPT !.op = "to_points", !.p = Size_to_points(call.r)]
  /\ UNCHANGED <<scn, vcall, bcall, rel, out, dbg, assignVars, sumVars>>

CallNeg ==
  /\ scn = "size"
  /\ call.op = "none"
  /\ \E a \in Sizes(F32) :
       call' = [NoCall EXCEPT !.op = "neg", !.a = a, !.r = Size_neg(a)]
  /\ UNCHANGED <<scn, vcall, bcall, rel, out, dbg, assignVars, sumVars>>

CallAdd ==
  /\ scn = "size"
  /\ call.op = "none"
  /\ \E a \in Sizes(F32), b \in Sizes(F32) :
       call' = [NoCall EXCEPT !.op = "add", !.a = a, !.b = b, !.r = Size_add(a, b)]
  /\ UNCHANGED <<scn, vcall, bcall, rel, out, dbg, assignVars, sumVars>>

CallSub ==
  /\ scn = "size"
  /\ call.op = "none"
  /\ \E a \in Sizes(F32), b \in Sizes(F32) :
       call' = [NoCall EXCEPT !.op = "sub", !.a = a, !.b = b, !.r = Size_sub(a, b)]
  /\ UNCHANGED <<scn, vcall, bcall, rel, out, dbg, assignVars, sumVars>>

CallMulF32 ==
  /\ scn = "size"
  /\ call.op = "none"
  /\ \E a \in Sizes(F32), k \in F32 :
       call' = [NoCall EXCEPT !.op = "mul_f32", !.a = a, !.k = k, !.r = Size_mul_f32(a, k)]
  /\ UNCHANGED <<scn, vcall, bcall, rel, out, dbg, assignVars, sumVars>>

CallF32Mul ==
  /\ scn = "size"
  /\ call.op = "none"
  /\ \E a \in Sizes(F32), k \in F32 :
       call' = [NoCall EXCEPT !.op = "f32_mul", !.a = a, !.k = k, !.r = f32_mul_Size(k, a)]
  /\ UNCHANGED <<scn, vcall, bcall, rel, out, dbg, assignVars, sumVars>>

CallMulI32 ==
  /\ scn = "size"
  /\ call.op = "none"
  /\ \E a \in Sizes(F32), i \in Ints :
       call' = [NoCall EXCEPT !.op = "mul_i32", !.a = a, !.i = i, !.r = Size_mul_i32(a, i)]
  /\ UNCHANGED <<scn, vcall, bcall, rel, out, dbg, assignVars, sumVars>>

CallI32Mul ==
  /\ scn = "size"
  /\ call.op = "none"
  /\ \E a \in Sizes(F32), i \in Ints :
       call' = [NoCall EXCEPT !.op = "i32_mul", !.a = a, !.i = i, !.r = i32_mul_Size(i, a)]
  /\ UNCHANGED <<scn, vcall, bcall, rel, out, dbg, assignVars, sumVars>>

CallDivF32 ==
  /\ scn = "size"
  /\ call.op = "none"
  /\ \E a \in Sizes(F32), k \in F32 :
       call' = [NoCall EXCEPT !.op = "div_f32", !.a = a, !.k = k, !.r = Size_div_f32(a, k)]
  /\ UNCHANGED <<scn, vcall, bcall, rel, out, dbg, assignVars, sumVars>>

CallDivI32 ==
  /\ scn = "size"
  /\ call.op = "none"
  /\ \E a \in Sizes(F32), i \in Ints :
       call' = [NoCall EXCEPT !.op = "div_i32", !.a = a, !.i = i, !.r = Size_div_i32(a, i)]
  /\ UNCHANGED <<scn, vcall, bcall, rel, out, dbg, assignVars, sumVars>>

\* a == b, a.partial_cmp(&b), a < b, a <= b, a > b, a >= b
CallCmp ==
  /\ scn = "size"
  /\ call.op = "none"
  /\ \E a \in Sizes(F32), b \in Sizes(F32) :
       /\ call' = [NoCall EXCEPT !.op = "cmp", !.a = a, !.b = b]
       /\ rel' = Answers(Size_partial_cmp(a, b), Size_eq(a, b))
  /\ UNCHANGED <<scn, vcall, bcall, out, dbg, assignVars, sumVars>>

\* format!("{}", a) and format!("{:?}", a)
CallFmt ==
  /\ scn = "size"
  /\ call.op = "none"
  /\ \E a \in Sizes(F32) :
       /\ call' = [NoCall EXCEPT !.op = "fmt", !.a = a]
       /\ out' = Size_fmt(a)
       /\ dbg' = Size_debug(a)
  /\ UNCHANGED <<scn, vcall, bcall, rel, assignVars, sumVars>>

(* ---- calls on Size2D ---- *)

VCallZero ==
  /\ scn = "size2d"
  /\ vcall.op = "none"
  /\ vcall' = [NoVCall EXCEPT !.op = "zero", !.r = Size2D_zero]
  /\ UNCHANGED <<scn, call, bcall, rel, out, dbg, assignVars, sumVars>>

VCallNeg ==
  /\ scn = "size2d"
  /\ vcall.op = "none"
  /\ \E a \in Size2Ds(Samples) :
       vcall' = [NoVCall EXCEPT !.op = "neg", !.a = a, !.r = Size2D_neg(a)]
  /\ UNCHANGED <<scn, call, bcall, rel, out, dbg, assignVars, sumVars>>

VCallAdd ==
  /\ scn = "size2d"
  /\ vcall.op = "none"
  /\ \E a \in Size2Ds(Samples), b \in Size2Ds(Few) :
       vcall' = [NoVCall EXCEPT !.op = "add", !.a = a, !.b = b, !.r = Size2D_add(a, b)]
  /\ UNCHANGED <<scn, call, bcall, rel, out, dbg, assignVars, sumVars>>

VCallSub ==
  /\ scn = "size2d"
  /\ vcall.op = "none"
  /\ \E a \in Size2Ds(Samples), b \in Size2Ds(Few) :
       vcall' = [NoVCall EXCEPT !.op = "sub", !.a = a, !.b = b, !.r = Size2D_sub(a, b)]
  /\ UNCHANGED <<scn, call, bcall, rel, out, dbg, assignVars, sumVars>>

VCallMulF32 ==
  /\ scn = "size2d"
  /\ vcall.op = "none"
  /\ \E a \in Size2Ds(Samples), k \in Samples :
       vcall' = [NoVCall EXCEPT !.op = "mul_f32", !.a = a, !.k = k, !.r = Size2D_mul_f32(a, k)]
  /\ UNCHANGED <<scn, call, bcall, rel, out, dbg, assignVars, sumVars>>

VCallF32Mul ==
  /\ scn = "size2d"
  /\ vcall.op = "none"
  /\ \E a \in Size2Ds(Samples), k \in Samples :
       vcall' = [NoVCall EXCEPT !.op = "f32_mul", !.a = a, !.k = k, !.r = f32_mul_Size2D(k, a)]
  /\ UNCHANGED <<scn, call, bcall, rel, out, dbg, assignVars, sumVars>>

VCallMulI32 ==
  /\ scn = "size2d"
  /\ vcall.op = "none"
  /\ \E a \in Size2Ds(Samples), i \in Ints :
       vcall' = [NoVCall EXCEPT !.op = "mul_i32", !.a = a, !.i = i, !.r = Size2D_mul_i32(a, i)]
  /\ UNCHANGED <<scn, call, bcall, rel, out, dbg, assignVars, sumVars>>

VCallI32Mul ==
  /\ scn = "size2d"
  /\ vcall.op = "none"
  /\ \E a \in Size2Ds(Samples), i \in Ints :
       vcall' = [NoVCall EXCEPT !.op = "i32_mul", !.a = a, !.i = i, !.r = i32_mul_Size2D(i, a)]
  /\ UNCHANGED <<scn, call, bcall, rel, out, dbg, assignVars, sumVars>>

VCallDivF32 ==
  /\ scn = "size2d"
  /\ vcall.op = "none"
  /\ \E a \in Size2Ds(Samples), k \in Samples :
       vcall' = [NoVCall EXCEPT !.op = "div_f32", !.a = a, !.k = k, !.r = Size2D_div_f32(a, k)]
  /\ UNCHANGED <<scn, call, bcall, rel, out, dbg, assignVars, sumVars>>

VCallDivI32 ==
  /\ scn = "size2d"
  /\ vcall.op = "none"
  /\ \E a \in Size2Ds(Samples), i \in Ints :
       vcall' = [NoVCall EXCEPT !.op = "div_i32", !.a = a, !.i = i, !.r = Size2D_div_i32(a, i)]
  /\ UNCHANGED <<scn, call, bcall, rel, out, dbg, assignVars, sumVars>>

VCallCmp ==
  /\ scn = "size2d"
  /\ vcall.op = "none"
  /\ \E a \in Size2Ds(Samples), b \in Size2Ds(Few) :
       /\ vcall' = [NoVCall EXCEPT !.op = "cmp", !.a = a, !.b = b]
       /\ rel' = Answers(Size2D_partial_cmp(a, b), Size2D_eq(a, b))
  /\ UNCHANGED <<scn, call, bcall, out, dbg, assignVars, sumVars>>

VCallFmt ==
  /\ scn = "size2d"
  /\ vcall.op = "none"
  /\ \E a \in Size2Ds(Samples) :
       /\ vcall' = [NoVCall EXCEPT !.op = "fmt", !.a = a]
       /\ out' = Size2D_fmt(a)
       /\ dbg' = Size2D_debug(a)
  /\ UNCHANGED <<scn, call, bcall, rel, assignVars, sumVars>>

(* ---- calls on SizeBox ---- *)

BCallZero ==
  /\ scn = "sizebox"
  /\ bcall.op = "none"
  /\ bcall' = [NoBCall EXCEPT !.op = "zero", !.a = SizeBox_zero]
  /\ UNCHANGED <<scn, call, vcall, rel, out, dbg, assignVars, sumVars>>

BCallCmp ==
  /\ scn = "sizebox"
  /\ bcall.op = "none"
  /\ \E a \in SizeBoxes(Tiny), b \in SizeBoxes(Tiny) :
       /\ bcall' = [NoBCall EXCEPT !.op = "cmp", !.a = a, !.b = b]
       /\ rel' = Answers(SizeBox_partial_cmp(a, b), SizeBox_eq(a, b))
  /\ UNCHANGED <<scn, call, vcall, out, dbg, assignVars, sumVars>>

BCallFmt ==
  /\ scn = "sizebox"
  /\ bcall.op = "none"
  /\ \E a \in SizeBoxes(Tiny) :
       /\ bcall' = [NoBCall EXCEPT !.op = "fmt", !.a = a]
       /\ out' = SizeBox_fmt(a)
       /\ dbg' = SizeBox_debug(a)
  /\ UNCHANGED <<scn, call, vcall, rel, assignVars, sumVars>>

(* ---- compound assignments ---- *)

\* the right operands a caller may bind
Operands ==
  {[NoRhs EXCEPT !.ty = "size", !.f = p] : p \in Few}
  \cup {[NoRhs EXCEPT !.ty = "f32", !.f = p] : p \in Few}
  \cup {[NoRhs EXCEPT !.ty = "i32", !.i = i] : i \in IntsFew}
  \cup {[NoRhs EXCEPT !.ty = "size2d", !.v = v] : v \in Size2Ds(Tiny)}

\* the caller binds the right operand of the next compound assignment
LoadRhs ==
  /\ scn \in {"assign", "assign2d"}
  /\ steps < MaxSteps
  /\ \E o \in Operands :
       /\ o.ty = "size2d" => scn = "assign2d"
       /\ o.ty = "size" => scn = "assign"
       /\ rhs' = o
  /\ UNCHANGED <<scn, callVars, recv, chain, vrecv, vchain, steps, sumVars>>

\* recv op= rhs, beside chain = chain op rhs
Assign(ty, inplace, value) ==
  /\ scn = "assign"
  /\ steps < MaxSteps
  /\ rhs.ty = ty
  /\ recv' = inplace
  /\ chain' = value
  /\ steps' = steps + 1
  /\ UNCHANGED <<scn, callVars, vrecv, vchain, rhs, sumVars>>

AddAssign ==
  Assign("size", Size_add_assign(recv, Size_from_points(rhs.f)),
         Size_add(chain, Size_from_points(rhs.f)))

SubAssign ==
  Assign("size", Size_sub_assign(recv, Size_from_points(rhs.f)),
         Size_sub(chain, Size_from_points(rhs.f)))

MulAssignF32 ==
  Assign("f32", Size_mul_assign_f32(recv, rhs.f), Size_mul_f32(chain, rhs.f))

MulAssignI32 ==
  Assign("i32", Size_mul_assign_i32(recv, rhs.i), Size_mul_i32(chain, rhs.i))

DivAssignF32 ==
  Assign("f32", Size_div_assign_f32(recv, rhs.f), Size_div_f32(chain, rhs.f))

DivAssignI32 ==
  Assign("i32", Size_div_assign_i32(recv, rhs.i), Size_div_i32(chain, rhs.i))

\* vrecv op= rhs, beside vchain = vchain op rhs
VAssign(ty, inplace, value) ==
  /\ scn = "assign2d"
  /\ steps < MaxSteps
  /\ rhs.ty = ty
  /\ vrecv' = inplace
  /\ vchain' = value
  /\ steps' = steps + 1
  /\ UNCHANGED <<scn, callVars, recv, chain, rhs, sumVars>>

VAddAssign ==
  VAssign("size2d", Size2D_add_assign(vrecv, rhs.v), Size2D_add(vchain, rhs.v))

VSubAssign ==
  VAssign("size2d", Size2D_sub_assign(vrecv, rhs.v), Size2D_sub(vchain, rhs.v))

VMulAssignF32 ==
  VAssign("f32", Size2D_mul_assign_f32(vrecv, rhs.f), Size2D_mul_f32(vchain, rhs.f))

VMulAssignI32 ==
  VAssign("i32", Size2D_mul_assign_i32(vrecv, rhs.i), Size2D_mul_i32(vchain, rhs.i))

VDivAssignF32 ==
  VAssign("f32", Size2D_div_assign_f32(vrecv, rhs.f), Size2D_div_f32(vchain, rhs.f))

VDivAssignI32 ==
  VAssign("i32", Size2D_div_assign_i32(vrecv, rhs.i), Size2D_div_i32(vchain, rhs.i))

(* ---- summation ---- *)

\* let total: Size = items.iter().sum();  let mut acc = Size::zero();
SumCall ==
  /\ scn = "sum"
  /\ idx = 0
  /\ total' = Size_sum(items)
  /\ acc' = Size_zero
  /\ idx' = 1
  /\ UNCHANGED <<scn, callVars, assignVars, items>>

\* for s in items { acc = acc + s }
LoopStep ==
  /\ scn = "sum"
  /\ idx \in 1..Len(items)
  /\ acc' = Size_add(acc, items[idx])
  /\ idx' = idx + 1
  /\ UNCHANGED <<scn, callVars, assignVars, items, total>>

Next ==
  \/ CallZero \/ CallDefault \/ CallFromPoints \/ CallToPoints \/ CallNeg
  \/ CallAdd \/ CallSub \/ CallMulF32 \/ CallF32Mul \/ CallMulI32 \/ CallI32Mul
  \/ CallDivF32 \/ CallDivI32 \/ CallCmp \/ CallFmt
  \/ VCallZero \/ VCallNeg \/ VCallAdd \/ VCallSub \/ VCallMulF32 \/ VCallF32Mul
  \/ VCallMulI32 \/ VCallI32Mul \/ VCallDivF32 \/ VCallDivI32 \/ VCallCmp \/ VCallFmt
  \/ BCallZero \/ BCallCmp \/ BCallFmt
  \/ LoadRhs
  \/ AddAssign \/ SubAssign \/ MulAssignF32 \/ MulAssignI32 \/ DivAssignF32 \/ DivAssignI32
  \/ VAddAssign \/ VSubAssign \/ VMulAssignF32 \/ VMulAssignI32 \/ VDivAssignF32
  \/ VDivAssignI32
  \/ SumCall \/ LoopStep

Spec ==
  Init /\ [][Next]_vars

(* ---------------- properties ---------------- *)

\* the comparison of two non-NaN magnitudes as points of the extended real line
OrderOf(x, y) ==
  IF Key(x) < Key(y) THEN "Less" ELSE IF Key(x) > Key(y) THEN "Greater" ELSE "Equal"

\* the first entry of a sequence of field comparisons that is not Equal
FirstDiff(cs) ==
  IF \A n \in 1..Len(cs) : cs[n] = "Equal"
  THEN "Equal"
  ELSE cs[CHOOSE n \in 1..Len(cs) :
            cs[n] # "Equal" /\ \A m \in 1..(n - 1) : cs[m] = "Equal"]

\* <, <=, >, >= as read off a comparison result
ReadOff(r) ==
  /\ r.lt <=> (r.cmp = "Less")
  /\ r.le <=> (r.cmp \in {"Less", "Equal"})
  /\ r.gt <=> (r.cmp = "Greater")
  /\ r.ge <=> (r.cmp \in {"Greater", "Equal"})

\* C1: once the client's own loop (start from zero, add the items front to
\* back with +) has run over all items, its accumulator is exactly what sum
\* returned; the sum of the empty sequence is zero, and the sum of
\* [s1, s2, s3] is ((zero + s1) + s2) + s3.
C1_SumIsIterativeAddition ==
  (scn = "sum" /\ idx >= 1) =>
    /\ (idx = Len(items) + 1) => (total = acc)
    /\ (items = <<>>) => (total = Size_zero)
    /\ (Len(items) = 3) =>
         (total = Size_add(Size_add(Size_add(Size_zero, items[1]), items[2]), items[3]))

\* C1 witness: a finished sum of three items whose result depends on the
\* order of the additions
C1_Witness ==
  /\ scn = "sum"
  /\ Len(items) = 3
  /\ idx = 4
  /\ total = acc
  /\ ~ IsNaN(total.points)
  /\ total # Size_add(items[1], Size_add(items[2], items[3]))

\* C2 as stated: from_points(p).to_points() == p for every p, NaN included
C2_RoundTripEqualsForAll ==
  (scn = "size" /\ call.op = "to_points") => F32Eq(call.p, call.k)

\* C2 amended: from_points(p).to_points() returns p itself; it compares
\* equal to p under the magnitude's equality exactly when p is not NaN
C2_RoundTrip ==
  (scn = "size" /\ call.op = "to_points") =>
    /\ call.p = call.k
    /\ F32Eq(call.p, call.k) <=> ~ IsNaN(call.k)

\* C2 witness: the round trip of a negative finite p
C2_Witness ==
  /\ scn = "size"
  /\ call.op = "to_points"
  /\ call.k = Fin(TRUE, MaxMag)
  /\ F32Eq(call.p, call.k)

\* C3: with a NaN magnitude on either side none of <, <=, >, >=, == is true
\* and partial_cmp is None; otherwise the answers are those of the
\* magnitudes: 1.0 < 2.0, and 0.0 and -0.0 are equal.
C3_SizeOrdering ==
  (scn = "size" /\ call.op = "cmp") =>
    LET x == call.a.points
        y == call.b.points
    IN /\ (IsNaN(x) \/ IsNaN(y)) =>
            /\ rel.cmp = "None"
            /\ ~ rel.lt /\ ~ rel.le /\ ~ rel.gt /\ ~ rel.ge /\ ~ rel.eq
       /\ (~ IsNaN(x) /\ ~ IsNaN(y)) =>
            /\ rel.cmp = OrderOf(x, y)
            /\ rel.eq <=> (Key(x) = Key(y))
            /\ ReadOff(rel)
       /\ (x = Fin(FALSE, Unit) /\ y = Fin(FALSE, 2 * Unit)) => rel.lt
       /\ (x = F32Zero /\ y = Fin(TRUE, 0)) => (rel.eq /\ rel.cmp = "Equal")

\* C3 witness: a NaN-valued size compared with itself
C3_Witness ==
  /\ scn = "size"
  /\ call.op = "cmp"
  /\ IsNaN(call.a.points)
  /\ call.b = call.a
  /\ ~ rel.eq
  /\ rel.cmp = "None"

\* C4: partial_cmp of Size2D and of SizeBox is the comparison of the first
\* field pair, in declared order, that is not Equal; Equal when all are;
\* None, with <, <=, >, >= all false, when that pair is incomparable.  A
\* smaller x decides although y is larger.
C4_FieldOrder ==
  /\ (scn = "size2d" /\ vcall.op = "cmp") =>
       LET a == vcall.a
           b == vcall.b
       IN /\ rel.cmp = FirstDiff(<<Size_partial_cmp(a.x, b.x), Size_partial_cmp(a.y, b.y)>>)
          /\ ReadOff(rel)
          /\ (Size_partial_cmp(a.x, b.x) = "Less"
              /\ Size_partial_cmp(a.y, b.y) = "Greater") => rel.lt
  /\ (scn = "sizebox" /\ bcall.op = "cmp") =>
       LET a == bcall.a
           b == bcall.b
       IN /\ rel.cmp = FirstDiff(<<Size_partial_cmp(a.left, b.left),
                                   Size_partial_cmp(a.top, b.top),
                                   Size_partial_cmp(a.right, b.right),
                                   Size_partial_cmp(a.bottom, b.bottom)>>)
          /\ ReadOff(rel)

\* C4 witness: x is smaller, y is larger, and the vector is smaller
C4_Witness ==
  /\ scn = "size2d"
  /\ vcall.op = "cmp"
  /\ Size_partial_cmp(vcall.a.x, vcall.b.x) = "Less"
  /\ Size_partial_cmp(vcall.a.y, vcall.b.y) = "Greater"
  /\ rel.lt

\* C5 as stated: k * s == s * k for every size (and vector) and every
\* float or integer scalar
C5_ScalarMulCommutesForAll ==
  /\ (scn = "size" /\ call.op = "mul_f32") => Size_eq(f32_mul_Size(call.k, call.a), call.r)
  /\ (scn = "size" /\ call.op = "f32_mul") => Size_eq(call.r, Size_mul_f32(call.a, call.k))
  /\ (scn = "size" /\ call.op = "mul_i32") => Size_eq(i32_mul_Size(call.i, call.a), call.r)
  /\ (scn = "size" /\ call.op = "i32_mul") => Size_eq(call.r, Size_mul_i32(call.a, call.i))
  /\ (scn = "size2d" /\ vcall.op = "mul_f32") =>
       Size2D_eq(f32_mul_Size2D(vcall.k, vcall.a), vcall.r)
  /\ (scn = "size2d" /\ vcall.op = "f32_mul") =>
       Size2D_eq(vcall.r, Size2D_mul_f32(vcall.a, vcall.k))
  /\ (scn = "size2d" /\ vcall.op = "mul_i32") =>
       Size2D_eq(i32_mul_Size2D(vcall.i, vcall.a), vcall.r)
  /\ (scn = "size2d" /\ vcall.op = "i32_mul") =>
       Size2D_eq(vcall.r, Size2D_mul_i32(vcall.a, vcall.i))

\* two sizes hold the same magnitude, and == says so unless it is NaN
SameSize(l, r) ==
  /\ l = r
  /\ Size_eq(l, r) <=> ~ IsNaN(r.points)

\* two vectors hold the same magnitudes, and == says so unless one is NaN
SameSize2D(l, r) ==
  /\ l = r
  /\ Size2D_eq(l, r) <=> (~ IsNaN(r.x.points) /\ ~ IsNaN(r.y.points))

\* C5 amended: k * s and s * k hold the same magnitude for every size (and
\* vector, in both components) and every float or integer scalar, and
\* k * s == s * k holds exactly when no product is NaN
C5_ScalarMulCommutes ==
  /\ (scn = "size" /\ call.op = "mul_f32") => SameSize(f32_mul_Size(call.k, call.a), call.r)
  /\ (scn = "size" /\ call.op = "f32_mul") => SameSize(call.r, Size_mul_f32(call.a, call.k))
  /\ (scn = "size" /\ call.op = "mul_i32") => SameSize(i32_mul_Size(call.i, call.a), call.r)
  /\ (scn = "size" /\ call.op = "i32_mul") => SameSize(call.r, Size_mul_i32(call.a, call.i))
  /\ (scn = "size2d" /\ vcall.op = "mul_f32") =>
       SameSize2D(f32_mul_Size2D(vcall.k, vcall.a), vcall.r)
  /\ (scn = "size2d" /\ vcall.op = "f32_mul") =>
       SameSize2D(vcall.r, Size2D_mul_f32(vcall.a, vcall.k))
  /\ (scn = "size2d" /\ vcall.op = "mul_i32") =>
       SameSize2D(i32_mul_Size2D(vcall.i, vcall.a), vcall.r)
  /\ (scn = "size2d" /\ vcall.op = "i32_mul") =>
       SameSize2D(vcall.r, Size2D_mul_i32(vcall.a, vcall.i))

\* C5 witness: 2.0 * from_points(3.0) is 6 points
C5_Witness ==
  /\ scn = "size"
  /\ call.op = "f32_mul"
  /\ call.k = Fin(FALSE, 2 * Unit)
  /\ call.a.points = Fin(FALSE, 3 * Unit)
  /\ call.r.points = Fin(FALSE, 6 * Unit)
  /\ Size_eq(call.r, Size_mul_f32(call.a, call.k))

\* C6 as stated: a + zero == a for every size a; a - a == zero for finite a;
\* zero().to_points() == 0.0; the default equals zero
C6_ZeroIdentityForAll ==
  scn = "size" =>
    /\ (call.op = "add" /\ call.b = Size_zero) => Size_eq(call.r, call.a)
    /\ (call.op = "sub" /\ call.b = call.a /\ IsFinite(call.a.points)) =>
         Size_eq(call.r, Size_zero)
    /\ (call.op = "zero") => F32Eq(Size_to_points(call.r), F32Zero)
    /\ (call.op = "default") => Size_eq(call.r, Size_zero)

\* C6 amended: a + zero == a for every size a that is not NaN (for a NaN a
\* the sum is NaN and compares unequal to a); a - a == zero for finite a;
\* zero().to_points() == 0.0; the default equals zero
C6_ZeroIdentity ==
  scn = "size" =>
    /\ (call.op = "add" /\ call.b = Size_zero /\ ~ IsNaN(call.a.points)) =>
         Size_eq(call.r, call.a)
    /\ (call.op = "add" /\ call.b = Size_zero /\ IsNaN(call.a.points)) =>
         (IsNaN(call.r.points) /\ ~ Size_eq(call.r, call.a))
    /\ (call.op = "sub" /\ call.b = call.a /\ IsFinite(call.a.points)) =>
         Size_eq(call.r, Size_zero)
    /\ (call.op = "zero") => F32Eq(Size_to_points(call.r), F32Zero)
    /\ (call.op = "default") => Size_eq(call.r, Size_zero)

\* C6 witness: -0 + zero is +0, which equals -0
C6_Witness ==
  /\ scn = "size"
  /\ call.op = "add"
  /\ call.b = Size_zero
  /\ call.a.points = Fin(TRUE, 0)
  /\ call.r.points = F32Zero
  /\ Size_eq(call.r, call.a)

\* a size whose magnitude is a float: the operation returned, it did not panic
Returned(s) ==
  s.points \in F32

\* the magnitude is infinite or NaN
NonFinite(s) ==
  IsInf(s.points) \/ IsNaN(s.points)

\* C7: every constructor, conversion, negation, addition, subtraction,
\* scalar multiplication and division (value-returning and in place, on
\* Size and Size2D) and summation returns a value; dividing by the integer
\* 0 or the float 0.0 returns a non-finite or NaN size.
C7_NoOperationFails ==
  /\ Returned(call.r) /\ call.p \in F32
  /\ Returned(vcall.r.x) /\ Returned(vcall.r.y)
  /\ Returned(recv) /\ Returned(vrecv.x) /\ Returned(vrecv.y)
  /\ Returned(total) /\ Returned(acc)
  /\ (call.op = "div_i32" /\ call.i = 0) => NonFinite(call.r)
  /\ (call.op = "div_f32" /\ IsZero(call.k)) => NonFinite(call.r)
  /\ (vcall.op = "div_i32" /\ vcall.i = 0) => (NonFinite(vcall.r.x) /\ NonFinite(vcall.r.y))
  /\ (vcall.op = "div_f32" /\ IsZero(vcall.k)) => (NonFinite(vcall.r.x) /\ NonFinite(vcall.r.y))

\* C7 witness: a finite non-zero size divided by the integer 0 is infinite
C7_Witness ==
  /\ scn = "size"
  /\ call.op = "div_i32"
  /\ call.i = 0
  /\ call.a.points = Fin(TRUE, Unit)
  /\ call.r.points = Inf(TRUE)

\* C8: every Size2D operation is the Size operation on each component, x
\* from the x components and y from the y components, the same scalar on
\* both.
C8_ComponentWise ==
  (scn = "size2d") =>
    LET a == vcall.a
        b == vcall.b
        k == vcall.k
        i == vcall.i
        r == vcall.r
    IN /\ (vcall.op = "neg") => r = Size2D_new(Size_neg(a.x), Size_neg(a.y))
       /\ (vcall.op = "add") => r = Size2D_new(Size_add(a.x, b.x), Size_add(a.y, b.y))
       /\ (vcall.op = "sub") => r = Size2D_new(Size_sub(a.x, b.x), Size_sub(a.y, b.y))
       /\ (vcall.op = "mul_f32") => r = Size2D_new(Size_mul_f32(a.x, k), Size_mul_f32(a.y, k))
       /\ (vcall.op = "mul_i32") => r = Size2D_new(Size_mul_i32(a.x, i), Size_mul_i32(a.y, i))
       /\ (vcall.op = "f32_mul") => r = Size2D_new(f32_mul_Size(k, a.x), f32_mul_Size(k, a.y))
       /\ (vcall.op = "i32_mul") => r = Size2D_new(i32_mul_Size(i, a.x), i32_mul_Size(i, a.y))
       /\ (vcall.op = "div_f32") => r = Size2D_new(Size_div_f32(a.x, k), Size_div_f32(a.y, k))
       /\ (vcall.op = "div_i32") => r = Size2D_new(Size_div_i32(a.x, i), Size_div_i32(a.y, i))

\* C8 witness: a subtraction whose two components differ
C8_Witness ==
  /\ scn = "size2d"
  /\ vcall.op = "sub"
  /\ vcall.a.x # vcall.a.y
  /\ IsFinite(vcall.r.x.points) /\ IsFinite(vcall.r.y.points)
  /\ vcall.r.x # vcall.r.y
  /\ vcall.r.y = Size_sub(vcall.a.y, vcall.b.y)

\* C9: "{}" writes a Size as its magnitude followed by "pt", a Size2D as
\* "[<x>, <y>]" and a SizeBox as "[left: <L>, top: <T>, right: <R>,
\* bottom: <B>]", every component in Size's form and in declared order;
\* "{:?}" writes the same text as "{}".
C9_Rendering ==
  /\ (scn = "size" /\ call.op = "fmt") =>
       /\ out = F32Display(call.a.points) \o "pt"
       /\ dbg = out
       /\ (call.a.points = Fin(FALSE, 12 * Unit)) => (out = "12pt")
  /\ (scn = "size2d" /\ vcall.op = "fmt") =>
       /\ out = "[" \o Size_fmt(vcall.a.x) \o ", " \o Size_fmt(vcall.a.y) \o "]"
       /\ dbg = out
       /\ (vcall.a = Size2D_new(Size_from_points(Fin(FALSE, Unit)),
                                Size_from_points(Fin(FALSE, 2 * Unit)))) =>
            (out = "[1pt, 2pt]")
  /\ (scn = "sizebox" /\ bcall.op = "fmt") =>
       /\ out = "[left: " \o Size_fmt(bcall.a.left) \o ", top: " \o Size_fmt(bcall.a.top)
                \o ", right: " \o Size_fmt(bcall.a.right)
                \o ", bottom: " \o Size_fmt(bcall.a.bottom) \o "]"
       /\ dbg = out
       /\ (bcall.a = SizeBox_zero) =>
            (out = "[left: 0pt, top: 0pt, right: 0pt, bottom: 0pt]")

\* C9 witness: a box whose top and right differ, rendered in field order
C9_Witness ==
  /\ scn = "sizebox"
  /\ bcall.op = "fmt"
  /\ bcall.a.top # bcall.a.right
  /\ out = "[left: 0pt, top: NaNpt, right: 0pt, bottom: NaNpt]"
  /\ dbg = out

\* C10: after every compound assignment the receiver holds exactly what the
\* value-returning operator returns for the receiver's previous value, so
\* after any chain the receiver equals the chain of value-returning
\* operations (both components of a Size2D); the caller's right operand is
\* unchanged by the assignment.
C10_InPlaceAgrees ==
  /\ [](recv = chain /\ vrecv = vchain)
  /\ [][(steps' = steps + 1) => (rhs' = rhs)]_vars

\* C10 witness: a finished chain on a Size2D whose components differ
C10_Witness ==
  /\ scn = "assign2d"
  /\ steps = MaxSteps
  /\ rhs.ty = "size2d"
  /\ vrecv = vchain
  /\ IsFinite(vrecv.x.points) /\ IsFinite(vrecv.y.points)
  /\ vrecv.x # vrecv.y
  /\ ~ IsZero(vrecv.y.points)

==========================================================================
